---- MODULE Spec2Model ----
(***************************************************************************)
(* Model of the gateway in openapi/api.py: the chain registry built at     *)
(* startup and torn down at shutdown, the request handlers /utxos,         *)
(* /balance, /nfts, /sendtx and /chia_rpc, the response cache in front of  *)
(* the three read endpoints, and the full-node RPC backend they call.      *)
(***************************************************************************)
EXTENDS Integers, Sequences, FiniteSets, TLC

VARIABLES
    cfg,          \* chains_config handed to init_chains (settings.SUPPORTED_CHAINS)
    phase,        \* "starting" | "running" | "startup_failed" | "closing" | "stopped"
    row,          \* init_chains: index of the next row of chains_config
    localChains,  \* init_chains: the local dict `chains`
    clients,      \* every FullNodeRpcClient created so far: id -> "open" | "closed"
    appChains,    \* app.state.chains (empty until init_chains assigns it)
    closing,      \* shutdown: the values of app.state.chains still to visit
    now,          \* wall clock, in the time unit of the cache ttl
    cache,        \* the aiocache 'default' cache: key -> [value, stored, ttl]
    spent,        \* full node: the coins already spent
    nreq,         \* number of HTTP requests received
    tasks,        \* the handlers suspended at an await: number of the request
                  \* -> its frame; the state of a frame is "awaiting" (the call
                  \* is with the full node), "answered" (the answer is on its
                  \* way back), "hinting" or "gathering" (list_nfts)
    req,          \* the frame list_nfts ended with last: its state is "done" or
                  \* the place an exception left it ("failed_hint",
                  \* "failed_lookup", "failed_loop"); "idle" when the last
                  \* /nfts request was answered without a call to the node
    resp,         \* the last HTTP response sent
    log,          \* records written through logzero's logger
    rawFetched    \* methods handed to chain.client.raw_fetch

vars == <<cfg, phase, row, localChains, clients, appChains, closing, now,
          cache, spent, nreq, tasks, req, resp, log, rawFetched>>

lifecycleVars == <<cfg, phase, row, localChains, clients, appChains, closing>>
requestVars == <<now, cache, spent, nreq, tasks, req, resp, log, rawFetched>>

----------------------------------------------------------------------------
(* Bounds of the model *)

\* longest chains_config explored by the lifecycle specification
MaxChains == 2
\* largest batch of coin records a hint query returns in SpecNfts
MaxCoins == 3
\* number of HTTP requests in one behaviour of Spec
MaxReqs == 2
\* number of HTTP requests in one behaviour of SpecTtl
MaxTtlReqs == 3
\* number of HTTP requests in one behaviour of SpecNfts
MaxNftReqs == 1
\* last instant of the clock
MaxTime == 20

----------------------------------------------------------------------------
(* Strings, bytes and hex *)

HexDigits == <<"0", "1", "2", "3", "4", "5", "6", "7",
               "8", "9", "a", "b", "c", "d", "e", "f">>

DecDigits == <<"0", "1", "2", "3", "4", "5", "6", "7", "8", "9">>

\* str(n) for a non-negative int
RECURSIVE str(_)
str(n) == IF n < 10 THEN DecDigits[n + 1]
          ELSE str(n \div 10) \o DecDigits[(n % 10) + 1]

HexVal(c) == (CHOOSE i \in 1..16 : HexDigits[i] = c) - 1

\* bytes.hex(): two lower-case digits per byte
RECURSIVE hex(_)
hex(b) == IF b = <<>> THEN ""
          ELSE HexDigits[(Head(b) \div 16) + 1] \o HexDigits[(Head(b) % 16) + 1]
               \o hex(Tail(b))

RECURSIVE FromHexDigits(_)
FromHexDigits(s) ==
    IF Len(s) = 0 THEN <<>>
    ELSE <<HexVal(SubSeq(s, 1, 1)) * 16 + HexVal(SubSeq(s, 2, 2))>>
         \o FromHexDigits(SubSeq(s, 3, Len(s)))

\* utils.hexstr_to_bytes: strips an optional 0x prefix, then bytes.fromhex
hexstr_to_bytes(s) ==
    IF Len(s) >= 2 /\ SubSeq(s, 1, 2) = "0x"
    THEN FromHexDigits(SubSeq(s, 3, Len(s)))
    ELSE FromHexDigits(s)

\* utils.int_to_hex: 0x followed by the even-length hex of the int
int_to_hex(n) == "0x" \o hex(<<n>>)

----------------------------------------------------------------------------
(* Addresses *)

\* The bech32m addresses of the model: text -> (prefix, puzzle hash)
AddressBook ==
    { [address |-> "xch1qa",  prefix |-> "xch",  puzzle_hash |-> <<17>>],
      [address |-> "txch1qb", prefix |-> "txch", puzzle_hash |-> <<18>>] }

Addresses == {"xch1qa", "txch1qb", "xch1??"}

Ok(v) == [ok |-> TRUE, value |-> v]
Raise(e) == [ok |-> FALSE, error |-> e]

\* utils.bech32m.decode_puzzle_hash: (prefix, puzzle_hash), ValueError when the
\* text is no bech32m address
decode_puzzle_hash(address) ==
    IF \E a \in AddressBook : a.address = address
    THEN LET a == CHOOSE a \in AddressBook : a.address = address
         IN  Ok(<<a.prefix, a.puzzle_hash>>)
    ELSE Raise("ValueError")

HTTPException(code, detail) == [status |-> code, detail |-> detail]

decode_address(address, prefix) ==
    LET d == decode_puzzle_hash(address)
    IN  IF ~d.ok THEN Raise(HTTPException(400, "Invalid Address"))
        ELSE IF d.value[1] # prefix
             THEN Raise(HTTPException(400, "Invalid Address"))
             ELSE Ok(d.value[2])

----------------------------------------------------------------------------
(* Python dicts: insertion-ordered sequences of <<key, value>> *)

DictHas(d, k) == \E i \in 1..Len(d) : d[i][1] = k

DictGet(d, k) == d[CHOOSE i \in 1..Len(d) : d[i][1] = k][2]

\* d[k] = v: an existing key keeps its place, a new key goes last
DictSet(d, k, v) ==
    IF DictHas(d, k)
    THEN [i \in 1..Len(d) |-> IF d[i][1] = k THEN <<k, v>> ELSE d[i]]
    ELSE Append(d, <<k, v>>)

DictValues(d) == [i \in 1..Len(d) |-> d[i][2]]

----------------------------------------------------------------------------
(* Configuration (the config module) *)

\* settings.SUPPORTED_CHAINS of the deployment the request handlers run in
SUPPORTED_CHAINS ==
    << [id |-> 1, network_name |-> "mainnet", network_prefix |-> "xch",
        proxy_rpc_url |-> "https://node1", chia_root_path |-> ""],
       [id |-> 2, network_name |-> "testnet10", network_prefix |-> "txch",
        proxy_rpc_url |-> "", chia_root_path |-> "/root/.chia"] >>

\* the rows a chains_config is made of; "" is a key that is missing or empty
ConfigRows ==
    { [id |-> i, network_name |-> "mainnet", network_prefix |-> "xch",
       proxy_rpc_url |-> u[1], chia_root_path |-> u[2]] :
      i \in 1..2,
      u \in { <<"https://node1", "">>, <<"", "/root/.chia">>, <<"", "">> } }

RECURSIVE SeqsUpTo(_, _)
\* the sequences over S of length at most n
SeqsUpTo(S, n) ==
    IF n = 0 THEN { <<>> }
    ELSE LET shorter == SeqsUpTo(S, n - 1)
         IN  shorter \cup { Append(q, x) : q \in shorter, x \in S }

ChainConfigs == SeqsUpTo(ConfigRows, MaxChains) \ { <<>> }

\* settings.RPC_METHOD_WHITE_LIST
RPC_METHOD_WHITE_LIST == { "get_blockchain_state", "get_coin_record_by_name" }

RpcMethods == RPC_METHOD_WHITE_LIST \cup { "get_routes", "stop_node" }

\* settings.NFT_CHAIN_START_HEIGHT
NFT_CHAIN_START_HEIGHT == << <<"mainnet", 10>>, <<"testnet10", 2>> >>

\* the dataclass Chain
Chain(id, network_name, network_prefix, client) ==
    [id |-> id, network_name |-> network_name,
     network_prefix |-> network_prefix, client |-> client]

\* the registry init_chains builds from a config whose rows are all usable
RegistryOf(config) ==
    LET RECURSIVE Build(_, _)
        Build(i, d) ==
            IF i > Len(config) THEN d
            ELSE Build(i + 1,
                       DictSet(d, int_to_hex(config[i].id),
                               Chain(int_to_hex(config[i].id),
                                     config[i].network_name,
                                     config[i].network_prefix, i)))
    IN  Build(1, <<>>)

\* the chain query parameters the requests of the model carry
ChainParams == { "0x01", "0x02", "0x09" }

----------------------------------------------------------------------------
(* The full node behind a chain's FullNodeRpcClient *)

\* the coin records the nodes hold, by chain
LedgerCoins ==
    << [chain |-> "0x01", confirmed_block_index |-> 3,
        coin |-> [parent_coin_info |-> "0xb1", puzzle_hash |-> "0x11", amount |-> 5]],
       [chain |-> "0x01", confirmed_block_index |-> 4,
        coin |-> [parent_coin_info |-> "0xb2", puzzle_hash |-> "0x11", amount |-> 12]],
       [chain |-> "0x02", confirmed_block_index |-> 5,
        coin |-> [parent_coin_info |-> "0xb3", puzzle_hash |-> "0x12", amount |-> 7]] >>

CoinNames == { "0xb1", "0xb2", "0xb3" }

RECURSIVE SelectRecords(_, _, _, _, _)
SelectRecords(i, chainId, puzzle_hash, include_spent_coins, spentNow) ==
    IF i > Len(LedgerCoins) THEN <<>>
    ELSE LET c == LedgerCoins[i]
             isSpent == c.coin.parent_coin_info \in spentNow
             rest == SelectRecords(i + 1, chainId, puzzle_hash,
                                   include_spent_coins, spentNow)
         IN  IF /\ c.chain = chainId
                /\ hexstr_to_bytes(c.coin.puzzle_hash) = puzzle_hash
                /\ (include_spent_coins \/ ~isSpent)
             THEN << [coin |-> c.coin, spent |-> isSpent,
                      confirmed_block_index |-> c.confirmed_block_index] >> \o rest
             ELSE rest

\* FullNodeRpcClient.get_coin_records_by_puzzle_hash
get_coin_records_by_puzzle_hash(chainId, puzzle_hash, include_spent_coins, spentNow) ==
    SelectRecords(1, chainId, puzzle_hash, include_spent_coins, spentNow)

\* the spend bundles of the model: each spends one coin
SpendBundles == { [coin_spends |-> <<n>>] : n \in CoinNames }

\* FullNodeRpcClient.push_tx: ValueError when the node rejects the bundle
push_tx(chainId, spend_bundle, spentNow) ==
    LET n == spend_bundle.coin_spends[1]
    IN  IF ~\E i \in 1..Len(LedgerCoins) :
               /\ LedgerCoins[i].chain = chainId
               /\ LedgerCoins[i].coin.parent_coin_info = n
        THEN Raise("ValueError: UNKNOWN_UNSPENT")
        ELSE IF n \in spentNow THEN Raise("ValueError: DOUBLE_SPEND")
             ELSE Ok([status |-> "SUCCESS"])

\* the coin records carrying a hint, and what the node holds for the spend of
\* each one's parent
HintedCoins ==
    { [coin |-> [parent_coin_info |-> "0xa1", puzzle_hash |-> "0x31", amount |-> 1],
       confirmed_block_index |-> 11, spent |-> FALSE],
      [coin |-> [parent_coin_info |-> "0xa2", puzzle_hash |-> "0x32", amount |-> 1],
       confirmed_block_index |-> 12, spent |-> FALSE],
      [coin |-> [parent_coin_info |-> "0xa3", puzzle_hash |-> "0x33", amount |-> 1],
       confirmed_block_index |-> 13, spent |-> FALSE],
      [coin |-> [parent_coin_info |-> "0xa4", puzzle_hash |-> "0x34", amount |-> 1],
       confirmed_block_index |-> 14, spent |-> FALSE],
      [coin |-> [parent_coin_info |-> "0xa5", puzzle_hash |-> "0x35", amount |-> 1],
       confirmed_block_index |-> 15, spent |-> FALSE],
      [coin |-> [parent_coin_info |-> "0xa6", puzzle_hash |-> "0x36", amount |-> 1],
       confirmed_block_index |-> 16, spent |-> FALSE] }

\* coin id (bytes) -> the recorded spend, both programs hex-encoded
SpendTable ==
    << <<<<161>>, [puzzle_reveal |-> "ff0111", solution |-> "21"]>>,
       <<<<162>>, [puzzle_reveal |-> "ff0111", solution |-> "22"]>>,
       <<<<163>>, [puzzle_reveal |-> "ff0112", solution |-> "23"]>>,
       <<<<164>>, [puzzle_reveal |-> "05",     solution |-> "24"]>>,
       <<<<165>>, [puzzle_reveal |-> "ff0211", solution |-> "25"]>>,
       <<<<166>>, [puzzle_reveal |-> "ff01",   solution |-> "26"]>> >>

\* FullNodeRpcClient.get_puzzle_and_solution, when the node answers
get_puzzle_and_solution(coin_id, height) == DictGet(SpendTable, coin_id)

\* the order in which the node returns the hinted coin records
HintedOrder == << "0xa1", "0xa4", "0xa2", "0xa6", "0xa3", "0xa5" >>

HintedCoin(n) == CHOOSE c \in HintedCoins : c.coin.parent_coin_info = n

RECURSIVE Batches(_, _)
\* the batches of at most n coin records drawn from those named from place i
\* of HintedOrder on, in that order
Batches(i, n) ==
    IF n = 0 \/ i > Len(HintedOrder) THEN { <<>> }
    ELSE Batches(i + 1, n)
         \cup { <<HintedCoin(HintedOrder[i])>> \o rest : rest \in Batches(i + 1, n - 1) }

\* what get_coin_records_by_hint may do: raise, or return a batch of at most n
\* hinted coin records
HintAnswers(n) == { Raise("RpcError") } \cup { Ok(batch) : batch \in Batches(1, n) }

----------------------------------------------------------------------------
(* Programs: the serialized cons trees of puzzles and solutions *)

Atom(b) == [atom |-> b]
Pair(f, r) == [first |-> f, rest |-> r]
IsAtom(p) == DOMAIN p = {"atom"}
IsPair(p) == DOMAIN p = {"first", "rest"}

\* the number of bytes of the length prefix that starts with byte b, 0 when
\* b starts none
PrefixBytes(b) ==
    IF b < 128 THEN 0 ELSE IF b < 192 THEN 1 ELSE IF b < 224 THEN 2
    ELSE IF b < 240 THEN 3 ELSE IF b < 248 THEN 4 ELSE IF b < 252 THEN 5 ELSE 0

\* the bits of the first prefix byte b that belong to the length
PrefixBits(b) ==
    IF b < 192 THEN b - 128 ELSE IF b < 224 THEN b - 192
    ELSE IF b < 240 THEN b - 224 ELSE IF b < 248 THEN b - 240 ELSE b - 248

RECURSIVE BigEndian(_, _, _, _)
\* the number made of acc and then of the bytes i..j of b
BigEndian(b, i, j, acc) ==
    IF i > j THEN acc ELSE BigEndian(b, i + 1, j, acc * 256 + b[i])

RECURSIVE DecodeAt(_, _)
\* the program that starts at byte i of b, and the index after it:
\* 0xff opens a pair, 0x00..0x7f is a one-byte atom, 0x80..0xfb starts a
\* length prefix of 1 to 5 bytes followed by the atom (0x80 is nil)
DecodeAt(b, i) ==
    IF i > Len(b) THEN Raise("MalformedEncoding")
    ELSE IF b[i] = 255
    THEN LET f == DecodeAt(b, i + 1)
         IN  IF ~f.ok THEN f
             ELSE LET r == DecodeAt(b, f.value.next)
                  IN  IF ~r.ok THEN r
                      ELSE Ok([program |-> Pair(f.value.program, r.value.program),
                               next |-> r.value.next])
    ELSE IF b[i] < 128 THEN Ok([program |-> Atom(<<b[i]>>), next |-> i + 1])
    ELSE IF PrefixBytes(b[i]) = 0 THEN Raise("MalformedEncoding")
    ELSE LET p == PrefixBytes(b[i])
         IN  IF i + p - 1 > Len(b) THEN Raise("MalformedEncoding")
             ELSE LET n == BigEndian(b, i + 1, i + p - 1, PrefixBits(b[i]))
                  IN  IF i + p - 1 + n > Len(b) THEN Raise("MalformedEncoding")
                      ELSE Ok([program |-> Atom(SubSeq(b, i + p, i + p - 1 + n)),
                               next |-> i + p + n])

\* Program.fromhex
Program_fromhex(s) ==
    LET d == DecodeAt(hexstr_to_bytes(s), 1)
    IN  IF d.ok THEN Ok(d.value.program) ELSE d

\* Coin.from_json_dict
Coin_from_json_dict(c) ==
    [parent_coin_info |-> hexstr_to_bytes(c.parent_coin_info),
     puzzle_hash |-> hexstr_to_bytes(c.puzzle_hash),
     amount |-> c.amount]

\* nft.get_nft_info, then NFTInfo.to_dict: a puzzle (1 . owner) is an NFT of the
\* known revision, a pair under another revision number is an NFT this code
\* cannot read, anything else is no NFT; the solution carries the launcher id
get_nft_info(nft_coin, puzzle, solution) ==
    IF IsPair(puzzle) /\ IsAtom(puzzle.first)
    THEN IF puzzle.first.atom = <<1>> /\ IsAtom(puzzle.rest) /\ IsAtom(solution)
         THEN Ok([launcher_id |-> hex(solution.atom),
                  nft_coin_id |-> hex(nft_coin.puzzle_hash),
                  owner |-> hex(puzzle.rest.atom)])
         ELSE Raise("UnsupportedNFTVersion")
    ELSE Raise("NotAnNFT")

----------------------------------------------------------------------------
(* Startup and shutdown *)

\* row.get('proxy_rpc_url') or row.get('chia_root_path'): which client
\* init_chains creates for a row, "none" when it raises ValueError
client_kind(r) ==
    IF r.proxy_rpc_url # "" THEN "proxy"
    ELSE IF r.chia_root_path # "" THEN "root"
    ELSE "none"

\* one iteration of the loop of init_chains; networkOk tells whether the new
\* client's get_network_info succeeds
init_chains_row(networkOk) ==
    /\ phase = "starting"
    /\ row <= Len(cfg)
    /\ LET r == cfg[row]
           id_hex == int_to_hex(r.id)
       IN  IF client_kind(r) = "none"
           THEN /\ phase' = "startup_failed"
                /\ UNCHANGED <<row, localChains, clients>>
           ELSE /\ clients' = Append(clients, "open")
                /\ IF networkOk
                   THEN /\ localChains' =
                              DictSet(localChains, id_hex,
                                      Chain(id_hex, r.network_name,
                                            r.network_prefix, Len(clients) + 1))
                        /\ row' = row + 1
                        /\ UNCHANGED phase
                   ELSE /\ phase' = "startup_failed"
                        /\ UNCHANGED <<row, localChains>>
    /\ UNCHANGED <<cfg, appChains, closing>>
    /\ UNCHANGED requestVars

\* the end of init_chains: app.state.chains = chains
init_chains_done ==
    /\ phase = "starting"
    /\ row > Len(cfg)
    /\ appChains' = localChains
    /\ phase' = "running"
    /\ UNCHANGED <<cfg, row, localChains, clients, closing>>
    /\ UNCHANGED requestVars

\* shutdown is entered: the loop goes over app.state.chains.values()
shutdown_begin ==
    /\ phase = "running"
    /\ phase' = "closing"
    /\ closing' = DictValues(appChains)
    /\ UNCHANGED <<cfg, row, localChains, clients, appChains>>
    /\ UNCHANGED requestVars

\* the process ends after a failed startup: app.state.chains was never
\* assigned, so there is nothing shutdown can go over
shutdown_unstarted ==
    /\ phase = "startup_failed"
    /\ phase' = "stopped"
    /\ UNCHANGED <<cfg, row, localChains, clients, appChains, closing>>
    /\ UNCHANGED requestVars

CloseOutcomes == { "closed", "close_raises", "await_closed_raises" }

\* one iteration of the loop of shutdown: chain.client.close(), then
\* await chain.client.await_closed(); an exception of either leaves the loop
shutdown_close(outcome) ==
    /\ phase = "closing"
    /\ closing # <<>>
    /\ LET chain == Head(closing)
       IN  /\ clients' = IF outcome = "close_raises" THEN clients
                         ELSE [clients EXCEPT ![chain.client] = "closed"]
           /\ IF outcome = "closed"
              THEN /\ closing' = Tail(closing)
                   /\ UNCHANGED phase
              ELSE /\ phase' = "stopped"
                   /\ UNCHANGED closing
    /\ UNCHANGED <<cfg, row, localChains, appChains>>
    /\ UNCHANGED requestVars

\* the loop of shutdown has visited every chain
shutdown_done ==
    /\ phase = "closing"
    /\ closing = <<>>
    /\ phase' = "stopped"
    /\ UNCHANGED <<cfg, row, localChains, clients, appChains, closing>>
    /\ UNCHANGED requestVars

----------------------------------------------------------------------------
(* The response cache: the decorator aiocache.cached *)

UTXOS_TTL == 10
BALANCE_TTL == 10
NFTS_TTL == 20

\* a key_builder that leaves the address out
key_builder_no_address(endpoint, address) == endpoint \o ":"

\* key_builder: f"<endpoint>:{kwargs['address']}"
key_builder(endpoint, address) == endpoint \o ":" \o address

\* cache.get(key) finds a value: the entry is kept until its ttl has elapsed
cache_live(c, key, t) == key \in DOMAIN c /\ t < c[key].stored + c[key].ttl

\* cache.set(key, value, ttl=ttl) at time t
cache_set(c, key, value, ttl, t) ==
    [k \in DOMAIN c \cup {key} |->
        IF k = key THEN [value |-> value, stored |-> t, ttl |-> ttl] ELSE c[k]]

\* the entries left at time t
cache_expire(c, t) == [k \in { k \in DOMAIN c : cache_live(c, k, t) } |-> c[k]]

Outcome(status, body, rpcs) == [status |-> status, body |-> body, rpcs |-> rpcs]

\* the wrapper of cached found a value: it is returned without a call
cached(c, key) == Outcome(200, c[key].value, 0)

\* what the wrapper leaves in the cache when the call ends at time t: a value
\* the call returned is stored, over whatever the key holds by then
cached_store(c, key, t, ttl, computed) ==
    IF computed.status = 200 THEN cache_set(c, key, computed.body, ttl, t) ELSE c

----------------------------------------------------------------------------
(* Request handlers *)

\* a response, with the request it answers: seq is the number of the request,
\* address its address (or, for /chia_rpc, its method), rpcs the number of
\* calls the handler made to the full node
Response(seq, endpoint, address, chain, out) ==
    [seq |-> seq, endpoint |-> endpoint, address |-> address, chain |-> chain,
     status |-> out.status, body |-> out.body, rpcs |-> out.rpcs]

NoResponse == Response(0, "", "", "", Outcome(0, "", 0))

\* the frame of a handler: what the coroutine holds across its awaits
IdleReq ==
    [state |-> "idle", seq |-> 0, endpoint |-> "", address |-> "", chain |-> "",
     chainId |-> "", puzzle_hash |-> <<>>, start_height |-> 0, item |-> <<>>,
     answer |-> <<>>, records |-> <<>>, calls |-> <<>>, pending |-> {},
     results |-> <<>>]

\* the frame of request seq as its handler starts
Frame(seq, endpoint, address, chainParam, ch) ==
    [IdleReq EXCEPT !.seq = seq, !.endpoint = endpoint, !.address = address,
                    !.chain = chainParam, !.chainId = ch.id]

\* the handler of frame f is suspended at an await
suspend(t, f) ==
    [s \in DOMAIN t \cup {f.seq} |-> IF s = f.seq THEN f ELSE t[s]]

\* the handler of request seq has returned or raised
finish(t, seq) == [s \in DOMAIN t \ {seq} |-> t[s]]

\* request seq is suspended in the handler of endpoint, in the given state
Suspended(seq, endpoint, state) ==
    /\ seq \in DOMAIN tasks
    /\ tasks[seq].endpoint = endpoint
    /\ tasks[seq].state = state

\* the response to the request of frame f
Answer(f, out) == Response(f.seq, f.endpoint, f.address, f.chain, out)

\* a request can be taken: the application is up
Serving(limit) == phase = "running" /\ nreq < limit

\* the dependency get_chain
get_chain(chains, chain) ==
    IF ~DictHas(chains, chain)
    THEN Raise(HTTPException(400, "Ivalid Chain"))
    ELSE Ok(DictGet(chains, chain))

Failed(e) == Outcome(e.status, e.detail, 0)

coin_javascript_compat(coin) ==
    [parent_coin_info |-> coin.parent_coin_info,
     puzzle_hash |-> coin.puzzle_hash,
     amount |-> str(coin.amount)]

RECURSIVE utxos_data(_, _)
\* the loop of get_utxos over coin_records, from record i on
utxos_data(coin_records, i) ==
    IF i > Len(coin_records) THEN <<>>
    ELSE IF coin_records[i].spent THEN utxos_data(coin_records, i + 1)
    ELSE <<coin_javascript_compat(coin_records[i].coin)>>
         \o utxos_data(coin_records, i + 1)

\* the body of get_utxos after its await: coin_records is what the await gave
get_utxos_body(coin_records) ==
    IF ~coin_records.ok THEN Outcome(500, coin_records.error, 1)
    ELSE Outcome(200, utxos_data(coin_records.value, 1), 1)

RECURSIVE sum_unspent(_, _)
\* sum([c['coin']['amount'] for c in coin_records if not c['spent']])
sum_unspent(coin_records, i) ==
    IF i > Len(coin_records) THEN 0
    ELSE (IF coin_records[i].spent THEN 0 ELSE coin_records[i].coin.amount)
         + sum_unspent(coin_records, i + 1)

\* the body of query_balance after its await
query_balance_body(coin_records) ==
    IF ~coin_records.ok THEN Outcome(500, coin_records.error, 1)
    ELSE Outcome(200, [amount |-> sum_unspent(coin_records.value, 1)], 1)

\* FastAPI resolves the dependency get_chain, then calls the endpoint, which
\* is the wrapper of cached around the handler: a stored value is returned,
\* else the handler runs up to its first await, in the given state
call_cached(endpoint, address, chainParam, state) ==
    LET ch == get_chain(appChains, chainParam)
        key == key_builder(endpoint, address)
        puzzle_hash == decode_address(address, ch.value.network_prefix)
        answer(out) ==
            /\ resp' = Response(nreq + 1, endpoint, address, chainParam, out)
            /\ UNCHANGED tasks
    IN  IF ~ch.ok THEN answer(Failed(ch.error))
        ELSE IF cache_live(cache, key, now)
        THEN answer(cached(cache, key))
        ELSE IF ~puzzle_hash.ok THEN answer(Failed(puzzle_hash.error))
        ELSE IF endpoint = "nfts"
                /\ ~DictHas(NFT_CHAIN_START_HEIGHT, ch.value.network_name)
        THEN answer(Outcome(500, "KeyError", 0))
        ELSE /\ tasks' = suspend(tasks,
                    [Frame(nreq + 1, endpoint, address, chainParam, ch.value)
                        EXCEPT !.state = state,
                               !.puzzle_hash = puzzle_hash.value,
                               !.start_height =
                                   IF endpoint = "nfts"
                                   THEN DictGet(NFT_CHAIN_START_HEIGHT,
                                                ch.value.network_name)
                                   ELSE 0])
             /\ UNCHANGED resp

\* the handler of a cached endpoint returns or raises: the wrapper stores a
\* returned value under the key of the request, at the time of the return
return_cached(f, ttl, out) ==
    /\ resp' = Answer(f, out)
    /\ cache' = cached_store(cache, key_builder(f.endpoint, f.address), now, ttl, out)
    /\ tasks' = finish(tasks, f.seq)

\* GET /v1/utxos, up to the await of get_coin_records_by_puzzle_hash
get_utxos(limit, address, chainParam) ==
    /\ Serving(limit)
    /\ nreq' = nreq + 1
    /\ call_cached("utxos", address, chainParam, "awaiting")
    /\ UNCHANGED <<now, cache, spent, req, log, rawFetched>>
    /\ UNCHANGED lifecycleVars

\* GET /v1/balance, up to the await of get_coin_records_by_puzzle_hash
query_balance(limit, address, chainParam) ==
    /\ Serving(limit)
    /\ nreq' = nreq + 1
    /\ call_cached("balance", address, chainParam, "awaiting")
    /\ UNCHANGED <<now, cache, spent, req, log, rawFetched>>
    /\ UNCHANGED lifecycleVars

\* the full node serves a get_coin_records_by_puzzle_hash of /utxos or
\* /balance out of the coin set it has then, or the call fails; the answer is
\* on its way to the handler
rpc_coin_records(seq, rpcOk) ==
    /\ seq \in DOMAIN tasks
    /\ tasks[seq].endpoint \in { "utxos", "balance" }
    /\ tasks[seq].state = "awaiting"
    /\ tasks' = [tasks EXCEPT
                   ![seq].state = "answered",
                   ![seq].answer =
                       IF rpcOk
                       THEN Ok(get_coin_records_by_puzzle_hash(
                                   tasks[seq].chainId, tasks[seq].puzzle_hash,
                                   FALSE, spent))
                       ELSE Raise("RpcError")]
    /\ UNCHANGED <<now, cache, spent, nreq, req, resp, log, rawFetched>>
    /\ UNCHANGED lifecycleVars

\* get_utxos from its await to its end
get_utxos_resume(seq) ==
    /\ Suspended(seq, "utxos", "answered")
    /\ return_cached(tasks[seq], UTXOS_TTL, get_utxos_body(tasks[seq].answer))
    /\ UNCHANGED <<now, spent, nreq, req, log, rawFetched>>
    /\ UNCHANGED lifecycleVars

\* query_balance from its await to its end
query_balance_resume(seq) ==
    /\ Suspended(seq, "balance", "answered")
    /\ return_cached(tasks[seq], BALANCE_TTL, query_balance_body(tasks[seq].answer))
    /\ UNCHANGED <<now, spent, nreq, req, log, rawFetched>>
    /\ UNCHANGED lifecycleVars

\* POST /v1/sendtx, up to the await of push_tx
create_transaction(limit, spend_bundle, chainParam) ==
    /\ Serving(limit)
    /\ nreq' = nreq + 1
    /\ LET ch == get_chain(appChains, chainParam)
       IN  IF ~ch.ok
           THEN /\ resp' = Response(nreq + 1, "sendtx", "", chainParam,
                                    Failed(ch.error))
                /\ UNCHANGED tasks
           ELSE /\ tasks' = suspend(tasks,
                       [Frame(nreq + 1, "sendtx", "", chainParam, ch.value)
                           EXCEPT !.state = "awaiting", !.item = spend_bundle])
                /\ UNCHANGED resp
    /\ UNCHANGED <<now, cache, spent, req, log, rawFetched>>
    /\ UNCHANGED lifecycleVars

\* the full node serves a push_tx: it takes the bundle into its coin set or
\* rejects it (ValueError), or the call fails before the node has seen it
rpc_push_tx(seq, rpcOk) ==
    /\ Suspended(seq, "sendtx", "awaiting")
    /\ LET r == IF rpcOk
                THEN push_tx(tasks[seq].chainId, tasks[seq].item, spent)
                ELSE Raise("RpcError")
       IN  /\ tasks' = [tasks EXCEPT ![seq].state = "answered", ![seq].answer = r]
           /\ spent' = IF r.ok
                       THEN spent \cup {tasks[seq].item.coin_spends[1]}
                       ELSE spent
    /\ UNCHANGED <<now, cache, nreq, req, resp, log, rawFetched>>
    /\ UNCHANGED lifecycleVars

\* except ValueError
except_ValueError(error) ==
    Len(error) >= 10 /\ SubSeq(error, 1, 10) = "ValueError"

\* create_transaction from its await to its end
create_transaction_resume(seq) ==
    /\ Suspended(seq, "sendtx", "answered")
    /\ LET f == tasks[seq]
           r == f.answer
       IN  IF r.ok
           THEN /\ resp' = Answer(f, Outcome(200, [status |-> r.value.status], 1))
                /\ UNCHANGED log
           ELSE IF except_ValueError(r.error)
           THEN /\ log' = Append(log, [level |-> "warning", msg |-> "sendtx",
                                       error |-> r.error])
                /\ resp' = Answer(f, Outcome(400, r.error, 1))
           ELSE /\ resp' = Answer(f, Outcome(500, r.error, 1))
                /\ UNCHANGED log
    /\ tasks' = finish(tasks, seq)
    /\ UNCHANGED <<now, cache, spent, nreq, req, rawFetched>>
    /\ UNCHANGED lifecycleVars

\* a check that lets every method through
method_allowed_any(method) == TRUE

\* item.method in RPC_METHOD_WHITE_LIST
method_allowed(method) == method \in RPC_METHOD_WHITE_LIST

\* POST /v1/chia_rpc, up to the await of raw_fetch
full_node_rpc(limit, method, chainParam) ==
    /\ Serving(limit)
    /\ nreq' = nreq + 1
    /\ LET ch == get_chain(appChains, chainParam)
       IN  IF ~ch.ok
           THEN /\ resp' = Response(nreq + 1, "chia_rpc", method, chainParam,
                                    Failed(ch.error))
                /\ UNCHANGED <<tasks, rawFetched>>
           ELSE IF ~method_allowed(method)
           THEN /\ resp' = Response(nreq + 1, "chia_rpc", method, chainParam,
                                    Outcome(400, "unspport chia rpc method: "
                                                 \o method, 0))
                /\ UNCHANGED <<tasks, rawFetched>>
           ELSE /\ rawFetched' = rawFetched \cup {method}
                /\ tasks' = suspend(tasks,
                       [Frame(nreq + 1, "chia_rpc", method, chainParam, ch.value)
                           EXCEPT !.state = "awaiting"])
                /\ UNCHANGED resp
    /\ UNCHANGED <<now, cache, spent, req, log>>
    /\ UNCHANGED lifecycleVars

\* raw_fetch returns what the node answered, or raises, and full_node_rpc ends
full_node_rpc_resume(seq, rpcOk) ==
    /\ Suspended(seq, "chia_rpc", "awaiting")
    /\ resp' = Answer(tasks[seq],
                      IF rpcOk
                      THEN Outcome(200, [success |-> TRUE,
                                         method |-> tasks[seq].address], 1)
                      ELSE Outcome(500, "RpcError", 1))
    /\ tasks' = finish(tasks, seq)
    /\ UNCHANGED <<now, cache, spent, nreq, req, log, rawFetched>>
    /\ UNCHANGED lifecycleVars

----------------------------------------------------------------------------
(* GET /v1/nfts *)

\* the lookups of the list handed to asyncio.gather: one per coin record
issue_lookups(coin_records) ==
    [i \in 1..Len(coin_records) |->
        [coin_id |-> hexstr_to_bytes(coin_records[i].coin.parent_coin_info),
         height |-> coin_records[i].confirmed_block_index]]

NoResult == [done |-> FALSE, value |-> [puzzle_reveal |-> "", solution |-> ""]]

\* results kept in the order the lookups complete
gather_store_as_completed(results, i, value) ==
    LET free == { j \in 1..Len(results) : ~results[j].done }
        first == CHOOSE j \in free : \A k \in free : j <= k
    IN  [results EXCEPT ![first] = [done |-> TRUE, value |-> value]]

\* asyncio.gather: the result of the i-th awaitable is the i-th result
gather_store(results, i, value) ==
    [results EXCEPT ![i] = [done |-> TRUE, value |-> value]]

\* an error handler that lets through everything but a plain non-match
except_not_an_nft_only(error) == error = "NotAnNFT"

\* except Exception: continue
except_Exception(error) == TRUE

\* a filter that keeps every NFT
owner_is_anyone(nft_info, puzzle_hash) == TRUE

\* not (nft_info.owner != puzzle_hash.hex())
owner_is(nft_info, puzzle_hash) == nft_info.owner = hex(puzzle_hash)

Min(a, b) == IF a < b THEN a ELSE b

RECURSIVE nft_loop(_, _, _, _, _)
\* the loop of list_nfts over zip(coin_records, pz_and_solutions), from pair i
\* on: the data returned, or the exception that leaves the loop
nft_loop(coin_records, pz_and_solutions, puzzle_hash, i, data) ==
    IF i > Min(Len(coin_records), Len(pz_and_solutions)) THEN Ok(data)
    ELSE LET nft_coin == Coin_from_json_dict(coin_records[i].coin)
             puzzle == Program_fromhex(pz_and_solutions[i].puzzle_reveal)
             solution == Program_fromhex(pz_and_solutions[i].solution)
         IN  IF ~puzzle.ok THEN puzzle
             ELSE IF ~solution.ok THEN solution
             ELSE LET nft_info == get_nft_info(nft_coin, puzzle.value, solution.value)
                  IN  IF ~nft_info.ok
                      THEN IF except_Exception(nft_info.error)
                           THEN nft_loop(coin_records, pz_and_solutions,
                                         puzzle_hash, i + 1, data)
                           ELSE nft_info
                      ELSE IF ~owner_is(nft_info.value, puzzle_hash)
                      THEN nft_loop(coin_records, pz_and_solutions,
                                    puzzle_hash, i + 1, data)
                      ELSE nft_loop(coin_records, pz_and_solutions, puzzle_hash,
                                    i + 1, Append(data, nft_info.value))

\* list_nfts after the gather, for the frame f it has then: the loop, the
\* return, and the wrapper of cached storing what was returned
list_nfts_return(f) ==
    LET pz_and_solutions == [i \in 1..Len(f.results) |-> f.results[i].value]
        data == nft_loop(f.records, pz_and_solutions, f.puzzle_hash, 1, <<>>)
        rpcs == 1 + Len(f.calls)
    IN  /\ return_cached(f, NFTS_TTL,
                         IF data.ok THEN Outcome(200, data.value, rpcs)
                         ELSE Outcome(500, data.error, rpcs))
        /\ req' = [f EXCEPT !.state = IF data.ok THEN "done" ELSE "failed_loop"]

\* list_nfts up to the await of get_coin_records_by_hint; a request answered
\* at once leaves no frame
list_nfts_begin(limit, address, chainParam) ==
    /\ Serving(limit)
    /\ nreq' = nreq + 1
    /\ call_cached("nfts", address, chainParam, "hinting")
    /\ req' = IF nreq + 1 \in DOMAIN tasks' THEN req ELSE IdleReq
    /\ UNCHANGED <<now, cache, spent, log, rawFetched>>
    /\ UNCHANGED lifecycleVars

\* get_coin_records_by_hint answers with records from start_height on (an
\* exception ends the request), and list_nfts goes on to asyncio.gather: with
\* lookups to wait for it is suspended there; the gather of no lookup is done
\* at once, the await does not suspend, and list_nfts runs to its end
list_nfts_hinted(seq, answer) ==
    /\ Suspended(seq, "nfts", "hinting")
    /\ answer.ok => \A i \in 1..Len(answer.value) :
                        answer.value[i].confirmed_block_index
                            >= tasks[seq].start_height
    /\ LET gathering == [tasks[seq] EXCEPT
                           !.state = "gathering",
                           !.records = answer.value,
                           !.calls = issue_lookups(answer.value),
                           !.pending = 1..Len(issue_lookups(answer.value)),
                           !.results = [i \in 1..Len(issue_lookups(answer.value))
                                           |-> NoResult]]
       IN  IF ~answer.ok
           THEN /\ req' = [tasks[seq] EXCEPT !.state = "failed_hint"]
                /\ resp' = Answer(tasks[seq], Outcome(500, answer.error, 1))
                /\ tasks' = finish(tasks, seq)
                /\ UNCHANGED cache
           ELSE IF gathering.pending = {}
           THEN list_nfts_return(gathering)
           ELSE /\ tasks' = [tasks EXCEPT ![seq] = gathering]
                /\ UNCHANGED <<cache, req, resp>>
    /\ UNCHANGED <<now, spent, nreq, log, rawFetched>>
    /\ UNCHANGED lifecycleVars

\* one get_puzzle_and_solution of the gather completes; when it raises, the
\* gather raises at once and the request ends
lookup_complete(seq, i, rpcOk) ==
    /\ Suspended(seq, "nfts", "gathering")
    /\ i \in tasks[seq].pending
    /\ IF rpcOk
       THEN /\ tasks' = [tasks EXCEPT
                         ![seq].pending = @ \ {i},
                         ![seq].results = gather_store(@, i,
                                             get_puzzle_and_solution(
                                                 tasks[seq].calls[i].coin_id,
                                                 tasks[seq].calls[i].height))]
            /\ UNCHANGED <<req, resp>>
       ELSE /\ req' = [tasks[seq] EXCEPT !.state = "failed_lookup"]
            /\ resp' = Answer(tasks[seq],
                              Outcome(500, "RpcError", 1 + Len(tasks[seq].calls)))
            /\ tasks' = finish(tasks, seq)
    /\ UNCHANGED <<now, cache, spent, nreq, log, rawFetched>>
    /\ UNCHANGED lifecycleVars

\* every lookup of the gather has completed: list_nfts resumes and runs to
\* its end
list_nfts_finish(seq) ==
    /\ Suspended(seq, "nfts", "gathering")
    /\ tasks[seq].pending = {}
    /\ list_nfts_return(tasks[seq])
    /\ UNCHANGED <<now, spent, nreq, log, rawFetched>>
    /\ UNCHANGED lifecycleVars

\* the instants at which the clock is read: the last one before the expiry of
\* an entry stored at 0, and the one of its expiry, for each ttl
Instants ==
    { t \in 1..MaxTime :
        \E ttl \in { UTXOS_TTL, BALANCE_TTL, NFTS_TTL } : t \in { ttl - 1, ttl } }

\* time passes up to the next instant t; the cache drops the entries whose
\* ttl has elapsed
Tick(t) ==
    /\ phase = "running"
    /\ t > now
    /\ \A u \in Instants : u > now => t <= u
    /\ now' = t
    /\ cache' = cache_expire(cache, t)
    /\ UNCHANGED <<spent, nreq, tasks, req, resp, log, rawFetched>>
    /\ UNCHANGED lifecycleVars

----------------------------------------------------------------------------
(* Specifications *)

InitRequests ==
    /\ now = 0
    /\ cache = << >>
    /\ spent = {}
    /\ nreq = 0
    /\ tasks = << >>
    /\ req = IdleReq
    /\ resp = NoResponse
    /\ log = << >>
    /\ rawFetched = {}

\* the application before startup, for any chains_config
InitLifecycle ==
    /\ cfg \in ChainConfigs
    /\ phase = "starting"
    /\ row = 1
    /\ localChains = << >>
    /\ clients = << >>
    /\ appChains = << >>
    /\ closing = << >>
    /\ InitRequests

\* the application once startup has run over SUPPORTED_CHAINS
Init ==
    /\ cfg = SUPPORTED_CHAINS
    /\ phase = "running"
    /\ row = Len(SUPPORTED_CHAINS) + 1
    /\ localChains = RegistryOf(SUPPORTED_CHAINS)
    /\ clients = [i \in 1..Len(SUPPORTED_CHAINS) |-> "open"]
    /\ appChains = RegistryOf(SUPPORTED_CHAINS)
    /\ closing = << >>
    /\ InitRequests

\* the gateway serving /utxos, /balance, /sendtx and /chia_rpc, every input
\* and every failure of the full node included, the clock standing still
Next ==
    \/ \E address \in Addresses, chainParam \in ChainParams :
            get_utxos(MaxReqs, address, chainParam)
    \/ \E address \in Addresses, chainParam \in ChainParams :
            query_balance(MaxReqs, address, chainParam)
    \/ \E seq \in 1..MaxReqs, rpcOk \in BOOLEAN : rpc_coin_records(seq, rpcOk)
    \/ \E seq \in 1..MaxReqs : get_utxos_resume(seq)
    \/ \E seq \in 1..MaxReqs : query_balance_resume(seq)
    \/ \E spend_bundle \in SpendBundles, chainParam \in ChainParams :
            create_transaction(MaxReqs, spend_bundle, chainParam)
    \/ \E seq \in 1..MaxReqs, rpcOk \in BOOLEAN : rpc_push_tx(seq, rpcOk)
    \/ \E seq \in 1..MaxReqs : create_transaction_resume(seq)
    \/ \E method \in RpcMethods, chainParam \in ChainParams :
            full_node_rpc(MaxReqs, method, chainParam)
    \/ \E seq \in 1..MaxReqs, rpcOk \in BOOLEAN : full_node_rpc_resume(seq, rpcOk)

Spec == Init /\ [][Next]_vars

\* the requests of the behaviours in which time passes: /utxos for two
\* addresses, one of them on both chains and on a chain that is not
\* registered, the other endpoints for one address; the address holds no
\* hinted coin
TtlUtxosRequests ==
    { <<"xch1qa", "0x01">>, <<"xch1qa", "0x02">>, <<"xch1qa", "0x09">>,
      <<"txch1qb", "0x02">> }
TtlRequests == { <<"xch1qa", "0x01">> }
TtlSpendBundles == { [coin_spends |-> <<"0xb1">>] }
TtlHintAnswers == { Ok(<<>>) }

\* the gateway serving the cached endpoints and /sendtx while time passes
NextTtl ==
    \/ \E r \in TtlUtxosRequests : get_utxos(MaxTtlReqs, r[1], r[2])
    \/ \E r \in TtlRequests : query_balance(MaxTtlReqs, r[1], r[2])
    \/ \E seq \in 1..MaxTtlReqs : rpc_coin_records(seq, TRUE)
    \/ \E seq \in 1..MaxTtlReqs : get_utxos_resume(seq)
    \/ \E seq \in 1..MaxTtlReqs : query_balance_resume(seq)
    \/ \E spend_bundle \in TtlSpendBundles, r \in TtlRequests :
            create_transaction(MaxTtlReqs, spend_bundle, r[2])
    \/ \E seq \in 1..MaxTtlReqs : rpc_push_tx(seq, TRUE)
    \/ \E seq \in 1..MaxTtlReqs : create_transaction_resume(seq)
    \/ \E r \in TtlRequests : list_nfts_begin(MaxTtlReqs, r[1], r[2])
    \/ \E seq \in 1..MaxTtlReqs, answer \in TtlHintAnswers :
            list_nfts_hinted(seq, answer)
    \/ \E t \in Instants : Tick(t)

SpecTtl == Init /\ [][NextTtl]_vars

\* the chains named by the requests of the behaviours of /nfts: the main
\* chain and one that is not registered
NftChainParams == { "0x01", "0x09" }

\* the answers of the hint query in the behaviours of /nfts
NftHintAnswers == HintAnswers(MaxCoins)

\* the gateway serving /nfts over batches of several coins
NextNfts ==
    \/ \E address \in Addresses, chainParam \in NftChainParams :
            list_nfts_begin(MaxNftReqs, address, chainParam)
    \/ \E seq \in 1..MaxNftReqs, answer \in NftHintAnswers :
            list_nfts_hinted(seq, answer)
    \/ \E seq \in 1..MaxNftReqs, i \in 1..MaxCoins, rpcOk \in BOOLEAN :
            lookup_complete(seq, i, rpcOk)
    \/ \E seq \in 1..MaxNftReqs : list_nfts_finish(seq)

SpecNfts == Init /\ [][NextNfts]_vars

\* startup and shutdown over every chains_config
NextLifecycle ==
    \/ \E networkOk \in BOOLEAN : init_chains_row(networkOk)
    \/ init_chains_done
    \/ shutdown_begin
    \/ shutdown_unstarted
    \/ \E outcome \in CloseOutcomes : shutdown_close(outcome)
    \/ shutdown_done

SpecLifecycle == InitLifecycle /\ [][NextLifecycle]_vars

----------------------------------------------------------------------------
(* What the claims speak of *)

CachedEndpoints == { "utxos", "balance", "nfts" }

Registered(chain) == DictHas(appChains, chain)

\* the puzzle hash an address stands for
QueriedPuzzleHash(address) == decode_puzzle_hash(address).value[2]

\* the spend the node holds for a coin record's own parent and height
OwnSpend(record) ==
    get_puzzle_and_solution(hexstr_to_bytes(record.coin.parent_coin_info),
                            record.confirmed_block_index)

Decodable(record) ==
    /\ Program_fromhex(OwnSpend(record).puzzle_reveal).ok
    /\ Program_fromhex(OwnSpend(record).solution).ok

\* what the extractor makes of a coin record whose spend decodes
Extraction(record) ==
    get_nft_info(Coin_from_json_dict(record.coin),
                 Program_fromhex(OwnSpend(record).puzzle_reveal).value,
                 Program_fromhex(OwnSpend(record).solution).value)

\* the coin record is an NFT owned by puzzle_hash
Listed(record, puzzle_hash) ==
    /\ Decodable(record)
    /\ Extraction(record).ok
    /\ Extraction(record).value.owner = hex(puzzle_hash)

RECURSIVE ExpectedListing(_, _)
\* the NFT infos of the listed coin records, in the order of the records
ExpectedListing(records, puzzle_hash) ==
    IF records = <<>> THEN <<>>
    ELSE (IF Listed(Head(records), puzzle_hash)
          THEN <<Extraction(Head(records)).value>> ELSE <<>>)
         \o ExpectedListing(Tail(records), puzzle_hash)

\* the records without the i-th
Without(records, i) ==
    SubSeq(records, 1, i - 1) \o SubSeq(records, i + 1, Len(records))

\* the gather of the request returned: every lookup succeeded
GatherReturned == req.state \in { "done", "failed_loop" }

----------------------------------------------------------------------------
(* C1 *)

\* C1: when the lookups of a batch succeed and exactly one coin's puzzle_reveal
\* or solution does not decode, list_nfts answers 200 with the NFT infos of all
\* the other coins that decode, extract and pass the owner filter: no exception
\* escapes the call.
C1_UndecodableCoinIsSkipped ==
    ( /\ GatherReturned
      /\ \E i \in 1..Len(req.records) :
             /\ ~Decodable(req.records[i])
             /\ \A j \in 1..Len(req.records) \ {i} : Decodable(req.records[j])
      /\ \E j \in 1..Len(req.records) : Listed(req.records[j], req.puzzle_hash) )
    =>
        /\ resp.seq = req.seq
        /\ resp.status = 200
        /\ resp.body = ExpectedListing(req.records, req.puzzle_hash)

----------------------------------------------------------------------------
(* C2 *)

\* C2: when the get_puzzle_and_solution call of one coin fails and the calls
\* of its siblings succeed, list_nfts still answers 200 with the NFT infos of
\* the siblings.
C2_FailedLookupDoesNotAbortBatch ==
    \A i \in 1..Len(req.records) :
        ( /\ req.state = "failed_lookup"
          /\ Len(req.records) >= 2
          /\ req.pending = {i} )
        => /\ resp.seq = req.seq
           /\ resp.status = 200
           /\ resp.body = ExpectedListing(Without(req.records, i), req.puzzle_hash)

----------------------------------------------------------------------------
(* C3 *)

\* C3: every NFT info of a list returned by /nfts has the owner the queried
\* address decodes to; a coin whose extracted owner differs is dropped without
\* an error and without touching the other coins: if every coin of the batch
\* decodes, the call returns, with exactly the infos whose owner matches.
C3_OwnershipFilter ==
    /\ (resp.endpoint = "nfts" /\ resp.status = 200) =>
           \A i \in 1..Len(resp.body) :
               resp.body[i].owner = hex(QueriedPuzzleHash(resp.address))
    /\ (GatherReturned /\ \A i \in 1..Len(req.records) : Decodable(req.records[i])) =>
           /\ req.state = "done"
           /\ resp.status = 200
           /\ \A i \in 1..Len(req.records) :
                  Extraction(req.records[i]).ok =>
                      ( (\E j \in 1..Len(resp.body) :
                            resp.body[j] = Extraction(req.records[i]).value)
                        <=> Extraction(req.records[i]).value.owner
                              = hex(req.puzzle_hash) )

\* a batch with an NFT of the queried owner and an NFT of another owner was
\* listed
C3_Witness ==
    /\ req.state = "done"
    /\ resp.seq = req.seq
    /\ Len(resp.body) >= 1
    /\ \E i \in 1..Len(req.records) :
           /\ Decodable(req.records[i])
           /\ Extraction(req.records[i]).ok
           /\ Extraction(req.records[i]).value.owner # hex(req.puzzle_hash)

----------------------------------------------------------------------------
(* C4 *)

\* C4: an error of get_nft_info never leaves the loop of list_nfts (only a coin
\* that does not decode does), and the listing returned is made of the infos of
\* the other coins, in the order of the coin records.
C4_ExtractorFailureSkipsOnlyThatCoin ==
    /\ req.state = "failed_loop" =>
           \E i \in 1..Len(req.records) : ~Decodable(req.records[i])
    /\ req.state = "done" =>
           /\ resp.seq = req.seq
           /\ resp.status = 200
           /\ resp.body = ExpectedListing(req.records, req.puzzle_hash)

\* three coins were listed, the second of which the extractor refused
C4_Witness ==
    /\ req.state = "done"
    /\ Len(req.records) = 3
    /\ ~Extraction(req.records[2]).ok
    /\ Len(resp.body) = 2

----------------------------------------------------------------------------
(* C5 *)

\* the ttl the claim gives each endpoint
ClaimedTtl(endpoint) == IF endpoint = "nfts" THEN 20 ELSE 10

StoredFor(endpoint, address) == endpoint \o ":" \o address

\* a response stored for the endpoint and the address, younger than its ttl
HasFresh(endpoint, address) ==
    /\ StoredFor(endpoint, address) \in DOMAIN cache
    /\ now < cache[StoredFor(endpoint, address)].stored + ClaimedTtl(endpoint)

\* what a step does to the cache and with it, for the requests on the chains
\* in Chains: a request to a cached endpoint is answered from the cache, with
\* no call to the full node, exactly when a response is stored for the same
\* endpoint and address and less than the ttl old (10, 10, 20), and then with
\* the stored value; the arrival of a request changes no entry; an entry goes
\* only when its own ttl has elapsed, and is written only by a response
\* computed for its own endpoint and address, at the time of that response;
\* /sendtx and the spend it makes leave the cache as it is
CacheContract(Chains) ==
    /\ nreq' = nreq + 1 =>
            LET answered == resp'.seq = nreq'
                f == IF answered THEN resp' ELSE tasks'[nreq']
            IN  /\ (f.endpoint \in CachedEndpoints /\ f.chain \in Chains) =>
                     /\ (answered /\ resp'.status = 200 /\ resp'.rpcs = 0)
                            <=> HasFresh(f.endpoint, f.address)
                     /\ HasFresh(f.endpoint, f.address) =>
                            resp'.body = cache[StoredFor(f.endpoint, f.address)].value
                /\ cache' = cache
    /\ \A e \in CachedEndpoints, a \in Addresses :
             LET k == StoredFor(e, a)
                 written == /\ resp'.seq # resp.seq
                            /\ resp'.endpoint = e
                            /\ resp'.address = a
                            /\ resp'.status = 200
                            /\ resp'.rpcs > 0
                            /\ cache'[k].value = resp'.body
                            /\ cache'[k].stored = now'
             IN  /\ (k \in DOMAIN cache /\ k \in DOMAIN cache') =>
                        (cache'[k] = cache[k] \/ written)
                 /\ (k \in DOMAIN cache /\ k \notin DOMAIN cache') =>
                        now' >= cache[k].stored + ClaimedTtl(e)
                 /\ (k \notin DOMAIN cache /\ k \in DOMAIN cache') => written
    /\ (spent' # spent \/ (resp'.seq # resp.seq /\ resp'.endpoint = "sendtx"))
               => cache' = cache
    /\ DOMAIN cache' \subseteq
               { StoredFor(e, a) : e \in CachedEndpoints, a \in Addresses }

\* C5, as stated: every request to /utxos, /balance or /nfts, whatever chain it
\* names, is served the stored response, without a call to the full node, if
\* and only if a response of the same endpoint and address is stored and its
\* ttl has not elapsed.
C5_StoredResponseServedToEveryRequest ==
    [][ CacheContract(ChainParams) ]_vars

\* C5, amended: a request to /utxos, /balance or /nfts that names a registered
\* chain is served the stored response, without a call to the full node, if
\* and only if a response of the same endpoint and address is stored and its
\* ttl (10, 10, 20) has not elapsed; entries of other endpoints and addresses,
\* /sendtx and the arrival of requests never change an entry.
C5_CacheKeyedByEndpointAndAddressUntilTtl ==
    [][ CacheContract({ c \in ChainParams : Registered(c) }) ]_vars

\* /utxos served, without a call to the node and one unit before its ttl
\* elapses, a stored list that still holds a coin spent through /sendtx since
C5_Witness ==
    /\ resp.endpoint = "utxos"
    /\ resp.status = 200
    /\ resp.rpcs = 0
    /\ "0xb1" \in spent
    /\ \E i \in 1..Len(resp.body) : resp.body[i].parent_coin_info = "0xb1"
    /\ StoredFor("utxos", resp.address) \in DOMAIN cache
    /\ now = cache[StoredFor("utxos", resp.address)].stored + UTXOS_TTL - 1

----------------------------------------------------------------------------
(* C6 *)

\* C6: raw_fetch is only ever handed a method of RPC_METHOD_WHITE_LIST; a
\* /chia_rpc request naming another method is answered 400 without a call to
\* the full node.
C6_RawFetchOnlyAllowListed ==
    /\ rawFetched \subseteq RPC_METHOD_WHITE_LIST
    /\ (resp.endpoint = "chia_rpc" /\ Registered(resp.chain)
          /\ resp.address \notin RPC_METHOD_WHITE_LIST) =>
           /\ resp.status = 400
           /\ resp.rpcs = 0

\* a method outside the list was refused after a listed one went through
C6_Witness ==
    /\ rawFetched # {}
    /\ resp.endpoint = "chia_rpc"
    /\ Registered(resp.chain)
    /\ resp.address \notin RPC_METHOD_WHITE_LIST
    /\ resp.status = 400

----------------------------------------------------------------------------
(* C7 *)

\* C7: once shutdown has completed, every client init_chains created is
\* closed, also after a startup that failed part-way and after a close that
\* raised.
C7_EveryClientClosedAfterShutdown ==
    phase = "stopped" => \A i \in 1..Len(clients) : clients[i] = "closed"

----------------------------------------------------------------------------
(* C8 *)

\* C8: a listing over a batch with a coin the extractor refuses as
\* UnsupportedNFTVersion leaves a log record naming that error.
C8_UnsupportedVersionIsLogged ==
    ( /\ req.state = "done"
      /\ \E i \in 1..Len(req.records) :
             /\ Decodable(req.records[i])
             /\ ~Extraction(req.records[i]).ok
             /\ Extraction(req.records[i]).error = "UnsupportedNFTVersion" )
    => \E j \in 1..Len(log) : log[j].error = "UnsupportedNFTVersion"

----------------------------------------------------------------------------
(* C9 *)

\* the lookups of a frame are those of its records, and its results theirs
Paired(f) ==
    f.state \in { "gathering", "done", "failed_lookup", "failed_loop" } =>
        /\ Len(f.calls) = Len(f.records)
        /\ Len(f.results) = Len(f.records)
        /\ \A i \in 1..Len(f.records) :
               /\ f.calls[i].coin_id
                    = hexstr_to_bytes(f.records[i].coin.parent_coin_info)
               /\ f.calls[i].height = f.records[i].confirmed_block_index
               /\ (i \in f.pending) # f.results[i].done
               /\ f.results[i].done =>
                      f.results[i].value = OwnSpend(f.records[i])

\* C9: list_nfts issues one lookup per coin record, keyed by the record's
\* parent_coin_info and confirmed_block_index; every lookup is in flight or
\* complete as soon as the gather is awaited; whatever the order they complete
\* in, the i-th result is the spend of the i-th record; and the listing follows
\* the order of the coin records.
C9_LookupsPairedWithTheirRecords ==
    /\ \A seq \in DOMAIN tasks : Paired(tasks[seq])
    /\ Paired(req)
    /\ req.state = "done" =>
           resp.body = ExpectedListing(req.records, req.puzzle_hash)

\* three lookups are out and the third has completed before the other two
C9_Witness ==
    \E seq \in DOMAIN tasks :
        /\ tasks[seq].state = "gathering"
        /\ Len(tasks[seq].records) = 3
        /\ tasks[seq].pending = {1, 2}
        /\ tasks[seq].results[3].done

----------------------------------------------------------------------------
(* C10 *)

\* C10: a request to /utxos, /balance or /nfts naming a chain that is not in
\* the registry is answered 400 without a call to the full node, and one whose
\* address does not decode, or decodes to another prefix than the chain's, is
\* answered 400 Invalid Address, whatever requests came before.
C10_ChainAndPrefixAlwaysChecked ==
    resp.endpoint \in CachedEndpoints =>
        IF ~Registered(resp.chain)
        THEN resp.status = 400 /\ resp.rpcs = 0
        ELSE ( \/ ~decode_puzzle_hash(resp.address).ok
               \/ decode_puzzle_hash(resp.address).value[1]
                    # DictGet(appChains, resp.chain).network_prefix )
             => (resp.status = 400 /\ resp.body = "Invalid Address")

====
